---------------------------- MODULE Spec2Model ----------------------------
(***************************************************************************)
(* Model of solana-listener (src/main.rs): the slot tracker loop of main,  *)
(* the per-block proof bundle it builds, the field encoder str_to_fr, the  *)
(* proof generator generate_block_proof and the store save_proof_to_json.  *)
(*                                                                         *)
(* Strings the code parses (the text of a get_block error) are sequences   *)
(* of one-character strings, so that contains/find/slice/parse are         *)
(* computed as the code computes them.  Indices are 0-based as in Rust.    *)
(***************************************************************************)
EXTENDS Integers, Sequences, FiniteSets, TLC

(***************************************************************************)
(* Bounds of the model.                                                    *)
(***************************************************************************)
\* Highest slot number the node ever reports as its tip.
MaxSlot == 3
\* A "first available block" number far beyond every tip (two digits).
MaxFirst == 10

Slots == 0..MaxSlot

(***************************************************************************)
(* Rust Option values.                                                     *)
(***************************************************************************)
None == [some |-> FALSE]
Some(v) == [some |-> TRUE, val |-> v]

(***************************************************************************)
(* str::contains, str::find, slicing and parse::<Slot> on character        *)
(* sequences.                                                              *)
(***************************************************************************)
\* s[from..to], 0-based, end exclusive.
Slice(s, from, to) == SubSeq(s, from + 1, to)

\* s[from..]
SliceFrom(s, from) == SubSeq(s, from + 1, Len(s))

MatchesAt(s, pat, i) ==
    /\ i + Len(pat) <= Len(s)
    /\ Slice(s, i, i + Len(pat)) = pat

\* str::contains(pat)
contains(s, pat) == \E i \in 0..Len(s) : MatchesAt(s, pat, i)

\* str::find(pat): the 0-based index of the first match.
find(s, pat) ==
    IF contains(s, pat)
    THEN Some(CHOOSE i \in 0..Len(s) :
                /\ MatchesAt(s, pat, i)
                /\ \A j \in 0..(i - 1) : ~MatchesAt(s, pat, j))
    ELSE None

DecimalDigits == <<"0", "1", "2", "3", "4", "5", "6", "7", "8", "9">>

IsDigit(c) == \E i \in 1..Len(DecimalDigits) : DecimalDigits[i] = c

DigitValue(c) == (CHOOSE i \in 1..Len(DecimalDigits) : DecimalDigits[i] = c) - 1

RECURSIVE DigitsValue(_)
DigitsValue(ds) ==
    IF ds = <<>> THEN 0
    ELSE DigitsValue(SubSeq(ds, 1, Len(ds) - 1)) * Len(DecimalDigits)
            + DigitValue(ds[Len(ds)])

\* str::parse::<u64>(): an optional leading '+', then one or more decimal
\* digits and nothing else.  (Every number of the model fits a u64.)
parse(s) ==
    LET ds == IF s # <<>> /\ s[1] = "+" THEN Tail(s) ELSE s
    IN  IF ds # <<>> /\ \A i \in 1..Len(ds) : IsDigit(ds[i])
        THEN Some(DigitsValue(ds))
        ELSE None

\* u64::to_string(), as the node formats the numbers of its messages.
RECURSIVE to_string(_)
to_string(n) ==
    IF n < Len(DecimalDigits) THEN <<DecimalDigits[n + 1]>>
    ELSE to_string(n \div Len(DecimalDigits))
            \o <<DecimalDigits[(n % Len(DecimalDigits)) + 1]>>

(***************************************************************************)
(* The literal strings of main's error handling (lines 177-180).           *)
(***************************************************************************)
SlotWasSkipped ==
    <<"S","l","o","t"," ","w","a","s"," ","s","k","i","p","p","e","d">>

BlockCleanedUp ==
    <<"B","l","o","c","k"," ","c","l","e","a","n","e","d"," ","u","p">>

FirstAvailableLabel ==
    <<"F","i","r","s","t"," ","a","v","a","i","l","a","b","l","e"," ",
      "b","l","o","c","k",":"," ">>

\* Faulty variant of LabelOffset: the label is taken to be one byte longer.
LabelOffset_TooLong == Len(FirstAvailableLabel) + 1

\* The offset the code adds to start_index to step over the label.
LabelOffset == 23

\* The outcome of main's match arm Err(e) on the text of the error:
\* Some(first_available_block) when the code resyncs, None otherwise.
ResyncTarget(error_message) ==
    IF contains(error_message, SlotWasSkipped)
          \/ contains(error_message, BlockCleanedUp)
    THEN LET start == find(error_message, FirstAvailableLabel)
         IN  IF start.some
             THEN LET start_index == start.val
                      end == find(SliceFrom(error_message, start_index), <<",">>)
                  IN  IF end.some
                      THEN parse(Slice(error_message,
                                       start_index + LabelOffset,
                                       start_index + end.val))
                      ELSE None
             ELSE None
    ELSE None

\* Whether the slice error_message[start_index + 23..start_index + end_index]
\* of line 180 panics: its begin lies beyond its end.
SlicePanics(error_message) ==
    /\ contains(error_message, SlotWasSkipped)
          \/ contains(error_message, BlockCleanedUp)
    /\ find(error_message, FirstAvailableLabel).some
    /\ LET start_index == find(error_message, FirstAvailableLabel).val
           end == find(SliceFrom(error_message, start_index), <<",">>)
       IN  /\ end.some
           /\ start_index + LabelOffset > start_index + end.val

\* Whether the error is one of the two conditions the code classifies.
IsClassified(error_message) ==
    contains(error_message, SlotWasSkipped)
        \/ contains(error_message, BlockCleanedUp)

(***************************************************************************)
(* FieldEncoder: str_to_fr.  SHA-256 and the scalar field are scaled down: *)
(* a digest is a number below DigestSpace, and Fr::from_repr accepts it    *)
(* only when it is a canonical representation, i.e. below FieldModulus.    *)
(***************************************************************************)
\* Number of scalars of the (scaled-down) field Fr.
FieldModulus == 11

\* Number of values of a (scaled-down) digest.
DigestSpace == 16

\* Sha256::digest(data.as_bytes()) on the model's strings.
Sha256Digest(data) ==
    CASE data = "abcd"  -> 3
      [] data = "h2"    -> 12
      [] data = "sigA"  -> 5
      [] data = "sigB1" -> 7
      [] data = "sigB2" -> 9
      [] data = "sigZ"  -> 14

\* Fr::ZERO
FrZero == 0

\* Fr::from_repr(bytes): None unless the bytes are a canonical scalar.
from_repr(digest) == IF digest < FieldModulus THEN Some(digest) ELSE None

\* Option::unwrap_or_else(|| d)
unwrap_or_else(opt, d) == IF opt.some THEN opt.val ELSE d

\* Faulty variant of str_to_fr: a digest that is no canonical scalar is
\* reported as None instead of being replaced by zero.
str_to_fr_Propagate(data) == from_repr(Sha256Digest(data))

str_to_fr(data) ==
    Some(unwrap_or_else(from_repr(Sha256Digest(data)), FrZero))

(***************************************************************************)
(* CommitmentCircuit: BlockCircuit::synthesize.                            *)
(***************************************************************************)
\* Sha256 over the to_repr() bytes of a sequence of scalars (scaled down).
RECURSIVE Sha256Update(_, _)
Sha256Update(state, scalars) ==
    IF scalars = <<>> THEN state
    ELSE Sha256Update((state * 7 + Head(scalars) + 1) % DigestSpace,
                      Tail(scalars))

\* The values of the Some entries of a sequence of options, in order.
RECURSIVE Present(_)
Present(opts) ==
    IF opts = <<>> THEN <<>>
    ELSE IF Head(opts).some
         THEN <<Head(opts).val>> \o Present(Tail(opts))
         ELSE Present(Tail(opts))

\* A term (coefficient, variable) of a linear combination; "one" is
\* CS::one(), the constant variable.
Term(coeff, var) == [coeff |-> coeff, var |-> var]

\* The constraint system synthesize builds: one allocated variable (the
\* block hash) and one constraint, block_hash_var * 1 = result_hash_fr,
\* whose right-hand side is a constant computed from the circuit's values.
\* Each side of a constraint is a linear combination, a sequence of terms.
synthesize(circuit) ==
    LET result_hash == Sha256Update(5, Present(circuit.transaction_hashes))
        result_hash_fr == unwrap_or_else(from_repr(result_hash), FrZero)
    IN  [variables   |-> <<circuit.block_hash>>,
         constraints |-> <<[a |-> <<Term(1, "block_hash_var")>>,
                            b |-> <<Term(1, "one")>>,
                            c |-> <<Term(result_hash_fr, "one")>>]>>,
         inputs      |-> Len(circuit.transaction_hashes)]

(***************************************************************************)
(* ProofEngine: generate_block_proof.  The proof's random components are   *)
(* left out: the blob records the parameters' circuit and the witness.     *)
(***************************************************************************)
generate_block_proof(block_hash, transaction_hashes) ==
    LET circuit == [block_hash |-> Some(block_hash),
                    transaction_hashes |->
                        [i \in 1..Len(transaction_hashes) |->
                            Some(transaction_hashes[i])]]
        empty_circuit == [block_hash |-> None,
                          transaction_hashes |->
                              [i \in 1..Len(transaction_hashes) |-> None]]
        params == synthesize(empty_circuit)
    IN  [params |-> params, proof |-> synthesize(circuit)]

(***************************************************************************)
(* The blocks get_block returns.  RpcClient::get_block asks for the JSON   *)
(* encoding, so every transaction arrives as EncodedTransaction::Json.     *)
(***************************************************************************)
JsonTransaction(signatures) == [encoding |-> "Json", signatures |-> signatures]

Blocks ==
    { [blockhash |-> "abcd",
       transactions |-> << JsonTransaction(<<"sigA">>),
                           JsonTransaction(<<"sigB1", "sigB2">>) >>],
      [blockhash |-> "h2",
       transactions |-> << JsonTransaction(<<>>),
                           JsonTransaction(<<"sigZ", "sigA">>) >>] }

(***************************************************************************)
(* The body of the match arm Ok(block): the bundle built for a block.      *)
(***************************************************************************)
\* Faulty variant of SignatureLoop: only the transaction's first signature (its
\* id) gets an entry.
SignatureLoop_FirstOnly(signatures, i, acc) ==
    IF signatures = <<>> THEN acc
    ELSE LET encoded == str_to_fr(signatures[1])
             hashes == Append(acc.transaction_hashes, encoded.val)
         IN  [transaction_hashes |-> hashes,
              transactions |->
                 Append(acc.transactions,
                        [transaction_hash |-> signatures[1],
                         proof |-> generate_block_proof(encoded.val, hashes)])]

\* for signature in &transaction.signatures { ... }
RECURSIVE SignatureLoop(_, _, _)
SignatureLoop(signatures, i, acc) ==
    IF i > Len(signatures) THEN acc
    ELSE LET transaction_hash_str == signatures[i]
             encoded == str_to_fr(transaction_hash_str)
         IN  IF encoded.some
             THEN LET hashes == Append(acc.transaction_hashes, encoded.val)
                      proof == generate_block_proof(encoded.val, hashes)
                  IN  SignatureLoop(signatures, i + 1,
                        [transaction_hashes |-> hashes,
                         transactions |->
                            Append(acc.transactions,
                                   [transaction_hash |-> transaction_hash_str,
                                    proof |-> proof])])
             ELSE SignatureLoop(signatures, i + 1, acc)

\* for transaction_with_meta in block.transactions { ... }
RECURSIVE TransactionLoop(_, _, _)
TransactionLoop(transactions, i, acc) ==
    IF i > Len(transactions) THEN acc
    ELSE IF transactions[i].encoding = "Json"
         THEN TransactionLoop(transactions, i + 1,
                SignatureLoop(transactions[i].signatures, 1, acc))
         ELSE TransactionLoop(transactions, i + 1, acc)

\* Some(block_proof) as it stands at line 168, None when the block hash
\* does not convert (line 172).
BuildBlockProof(s, block) ==
    LET block_hash == str_to_fr(block.blockhash)
    IN  IF block_hash.some
        THEN LET done == TransactionLoop(block.transactions, 1,
                            [transaction_hashes |-> <<>>,
                             transactions |-> <<>>])
             IN  Some([slot |-> s,
                       block_hash |-> block.blockhash,
                       transactions |-> done.transactions,
                       block_proof_str |->
                          generate_block_proof(block_hash.val,
                                               done.transaction_hashes)])
        ELSE None

\* The circuit shapes (numbers of transaction inputs) of the parameters
\* generated while the bundle was built: one generate_block_proof call per
\* entry (line 150), then the call for the block (line 165).
SetupShapes(bundle) ==
    [i \in 1..Len(bundle.transactions) |->
        bundle.transactions[i].proof.params.inputs]
      \o <<bundle.block_proof_str.params.inputs>>

\* The number of generate_block_proof calls made for a block.
ProofCalls(s, block) ==
    IF BuildBlockProof(s, block).some
    THEN Len(SetupShapes(BuildBlockProof(s, block).val))
    ELSE 0

(***************************************************************************)
(* The error texts get_block fails with: one of the two classified         *)
(* conditions or an unclassified one, followed by nothing, by a well       *)
(* formed "First available block: F," or by a malformed one.               *)
(***************************************************************************)
\* The numbers the well-formed messages carry: every slot, the slot after
\* the highest tip, and MaxFirst.
FirstAvailableBlocks == 0..(MaxSlot + 1) \cup {MaxFirst}

ErrorPrefixes ==
    { SlotWasSkipped \o <<",", " ">>,
      BlockCleanedUp \o <<",", " ">>,
      <<"t", "i", "m", "e", "d", " ", "o", "u", "t", ",", " ">> }

ErrorTails ==
    { <<>>,
      FirstAvailableLabel \o <<"7">>,
      FirstAvailableLabel \o <<",">>,
      FirstAvailableLabel \o <<"x", "7", ",">>,
      FirstAvailableLabel \o <<"+", "2", ",", " ", "x">> }
    \cup { FirstAvailableLabel \o to_string(f) \o <<",">> :
               f \in FirstAvailableBlocks }

ErrorMessages == { p \o t : p \in ErrorPrefixes, t \in ErrorTails }

(***************************************************************************)
(* State.  The first group is the program's: the loop's position, main's   *)
(* locals and the proofs directory.  The second group records history      *)
(* (what was fetched, written and answered), read only by the properties.  *)
(***************************************************************************)
VARIABLES
    pc,             \* where main stands
    last_slot,      \* main's last_slot
    current_slot,   \* main's current_slot of the pass
    slot,           \* the for loop's slot
    seen_blocks,    \* main's seen_blocks
    block_proof,    \* the bundle being saved (an Option)
    files,          \* proofs/block_proof_<slot>.json, per slot (an Option)
    pass_start,     \* last_slot when the pass polled the tip
    enumerating,    \* whether the pass entered the for loop
    fetched,        \* the slots passed to get_block in the pass, in order
    pass_all_ok,    \* whether every get_block of the pass succeeded
    resynced,       \* whether the pass took the resync break
    resync_slot,    \* the slot whose error made the pass resync
    resync_first,   \* the first available block that error carried
    first_reported, \* the largest first available block of any resync
    outcome,        \* per slot, how its latest get_block ended
    failed_earlier, \* slots whose unclassified failure predates the pass
    fetch_count,    \* per slot, the number of get_block calls
    write_count,    \* per slot, the number of completed bundle writes
    chain,          \* per slot, the block get_block returned (an Option)
    setups,         \* the circuit shapes parameters were generated for, in order
    panic           \* the call whose failure made main panic ("none" if none)

program_vars ==
    <<pc, last_slot, current_slot, slot, seen_blocks, block_proof, files>>

pass_vars ==
    <<pass_start, enumerating, fetched, pass_all_ok, resynced, resync_slot,
      resync_first>>

history_vars ==
    <<first_reported, outcome, failed_earlier, fetch_count, write_count,
      chain>>

engine_vars == <<setups, panic>>

vars == <<program_vars, pass_vars, history_vars, engine_vars>>

\* The state after main's set-up (lines 105-116): an empty proofs
\* directory, last_slot 0, no slot seen, about to poll the tip.
Init ==
    /\ pc = "get_slot"
    /\ last_slot = 0
    /\ current_slot = 0
    /\ slot = 0
    /\ seen_blocks = {}
    /\ block_proof = None
    /\ files = [s \in Slots |-> None]
    /\ pass_start = 0
    /\ enumerating = FALSE
    /\ fetched = <<>>
    /\ pass_all_ok = TRUE
    /\ resynced = FALSE
    /\ resync_slot = 0
    /\ resync_first = 0
    /\ first_reported = 0
    /\ outcome = [s \in Slots |-> "none"]
    /\ failed_earlier = {}
    /\ fetch_count = [s \in Slots |-> 0]
    /\ write_count = [s \in Slots |-> 0]
    /\ chain = [s \in Slots |-> None]
    /\ setups = <<>>
    /\ panic = "none"

(***************************************************************************)
(* main's loop (lines 118-196), one action per step.                       *)
(***************************************************************************)
\* Faulty variant of RangeStart: the range starts at last_slot itself.
RangeStart_Inclusive(last) == last

\* The first slot of the range (last_slot + 1)..=current_slot.
RangeStart(last) == last + 1

\* Faulty variant of RangeHas: the range excludes current_slot (.. for ..=).
RangeHas_Exclusive(s, cur) == s < cur

\* Whether the range (last_slot + 1)..=current_slot still yields slot s.
RangeHas(s, cur) == s <= cur

\* Lines 119-121 for main's locals holding last and seen: poll the tip and,
\* if it is ahead of last_slot, enter the for loop; else go to the sleep.
StartPass(t, last, seen) ==
    /\ pc = "get_slot"
    /\ current_slot' = t
    /\ last_slot' = last
    /\ seen_blocks' = seen
    /\ IF t > last
       THEN pc' = "for" /\ slot' = RangeStart(last)
       ELSE pc' = "sleep" /\ slot' = slot
    /\ pass_start' = last
    /\ enumerating' = (t > last)
    /\ fetched' = <<>>
    /\ pass_all_ok' = TRUE
    /\ resynced' = FALSE
    /\ resync_slot' = 0
    /\ resync_first' = 0
    /\ failed_earlier' = {s \in Slots : outcome[s] = "unclassified"}
    /\ UNCHANGED <<block_proof, files, first_reported, outcome, fetch_count,
                   write_count, chain, engine_vars>>

\* Faulty variant of GetSlot: last_slot and seen_blocks are initialised inside
\* the loop, so every pass starts from their initial values.
GetSlot_Reinitialised(t) == StartPass(t, 0, {})

\* client.get_slot() returns t (line 119).
GetSlot(t) == StartPass(t, last_slot, seen_blocks)

\* client.get_slot() fails and unwrap() panics (line 119).
GetSlotPanics ==
    /\ pc = "get_slot"
    /\ pc' = "panicked"
    /\ panic' = "get_slot"
    /\ UNCHANGED <<last_slot, current_slot, slot, seen_blocks, block_proof,
                   files, pass_vars, history_vars, setups>>

\* The head of the for loop (lines 121-125): leave the loop when the range
\* is exhausted, skip a slot already seen, else go on to fetch the slot.
ForNext ==
    /\ pc = "for"
    /\ IF ~RangeHas(slot, current_slot)
       THEN pc' = "end_pass" /\ slot' = slot
       ELSE IF slot \in seen_blocks
            THEN pc' = "for" /\ slot' = slot + 1
            ELSE pc' = "get_block" /\ slot' = slot
    /\ UNCHANGED <<last_slot, current_slot, seen_blocks, block_proof, files,
                   pass_vars, history_vars, engine_vars>>

\* What every get_block call records, whatever it returns.
RecordFetch(result, block) ==
    /\ fetched' = Append(fetched, slot)
    /\ fetch_count' = [fetch_count EXCEPT ![slot] = @ + 1]
    /\ outcome' = [outcome EXCEPT ![slot] = result]
    /\ chain' = [chain EXCEPT ![slot] = block]

\* client.get_block(slot) returns Ok(block) (lines 126-165, 171-173): the
\* bundle is built, with its proofs; it is saved next.
GetBlockOk(block) ==
    /\ pc = "get_block"
    /\ block_proof' = BuildBlockProof(slot, block)
    /\ IF block_proof'.some
       THEN pc' = "create_file" /\ slot' = slot
       ELSE pc' = "for" /\ slot' = slot + 1
    /\ RecordFetch("ok", Some(block))
    /\ setups' = IF block_proof'.some
                 THEN setups \o SetupShapes(block_proof'.val)
                 ELSE setups
    /\ UNCHANGED <<last_slot, current_slot, seen_blocks, files, pass_start,
                   enumerating, pass_all_ok, resynced, resync_slot,
                   resync_first, first_reported, failed_earlier, write_count,
                   panic>>

\* client.get_block(slot) returns Ok(block) and the k-th call of
\* generate_block_proof made for the block fails in the proof system:
\* unwrap() panics (lines 84 and 88).
ProofPanics(block, k) ==
    /\ pc = "get_block"
    /\ k \in 1..ProofCalls(slot, block)
    /\ pc' = "panicked"
    /\ panic' = "generate_block_proof"
    /\ setups' = setups \o SubSeq(SetupShapes(BuildBlockProof(slot, block).val),
                                  1, k - 1)
    /\ RecordFetch("ok", Some(block))
    /\ UNCHANGED <<last_slot, current_slot, slot, seen_blocks, block_proof,
                   files, pass_start, enumerating, pass_all_ok, resynced,
                   resync_slot, resync_first, first_reported, failed_earlier,
                   write_count>>

\* Faulty variant of GetBlockErr: the resync does not break out of the loop.
GetBlockErr_NoBreak(error_message) ==
    LET target == ResyncTarget(error_message)
    IN  /\ pc = "get_block"
        /\ pc' = "for"
        /\ slot' = slot + 1
        /\ IF target.some
           THEN /\ last_slot' = target.val
                /\ resynced' = TRUE
                /\ resync_slot' = slot
                /\ resync_first' = target.val
                /\ first_reported' = IF target.val > first_reported
                                     THEN target.val ELSE first_reported
           ELSE UNCHANGED <<last_slot, resynced, resync_slot, resync_first,
                            first_reported>>
        /\ RecordFetch(IF IsClassified(error_message)
                       THEN "classified" ELSE "unclassified", None)
        /\ pass_all_ok' = FALSE
        /\ UNCHANGED <<current_slot, seen_blocks, block_proof, files,
                       pass_start, enumerating, failed_earlier, write_count,
                       engine_vars>>

\* client.get_block(slot) returns Err(e) with e.to_string() = error_message
\* (lines 175-190): a classified error with a parsable first available
\* block sets last_slot and breaks; any other error goes on to the next
\* slot.
GetBlockErr(error_message) ==
    LET target == ResyncTarget(error_message)
    IN  /\ pc = "get_block"
        /\ IF SlicePanics(error_message)
           THEN /\ pc' = "panicked"
                /\ panic' = "slice"
                /\ UNCHANGED <<last_slot, slot, resynced, resync_slot,
                               resync_first, first_reported>>
           ELSE IF target.some
           THEN /\ last_slot' = target.val
                /\ pc' = "end_pass"
                /\ slot' = slot
                /\ resynced' = TRUE
                /\ resync_slot' = slot
                /\ resync_first' = target.val
                /\ first_reported' = IF target.val > first_reported
                                     THEN target.val ELSE first_reported
                /\ panic' = panic
           ELSE /\ pc' = "for"
                /\ slot' = slot + 1
                /\ UNCHANGED <<last_slot, resynced, resync_slot,
                               resync_first, first_reported, panic>>
        /\ RecordFetch(IF IsClassified(error_message)
                       THEN "classified" ELSE "unclassified", None)
        /\ pass_all_ok' = FALSE
        /\ UNCHANGED <<current_slot, seen_blocks, block_proof, files,
                       pass_start, enumerating, failed_earlier, write_count,
                       setups>>

(***************************************************************************)
(* ProofBundleStore: save_proof_to_json (lines 199-207), in its steps.     *)
(* A file is None (absent) or Some of its content: how much of the         *)
(* serialized bundle it holds ("nothing", "part" or "all") and of which.   *)
(***************************************************************************)
\* serde_json::to_string_pretty(&block_proof): the document's fields.
to_string_pretty(bundle) ==
    [slot |-> bundle.slot,
     block_hash |-> bundle.block_hash,
     transactions |-> [i \in 1..Len(bundle.transactions) |->
        [transaction_hash |-> bundle.transactions[i].transaction_hash,
         proof |-> bundle.transactions[i].proof]]]

FileHolding(written, bundle) ==
    Some([written |-> written, json_data |-> to_string_pretty(bundle)])

\* File::create(&file_name) succeeds: the file exists and is empty.
CreateFile ==
    /\ pc = "create_file"
    /\ files' = [files EXCEPT ![slot] = FileHolding("nothing", block_proof.val)]
    /\ pc' = "write_all"
    /\ UNCHANGED <<last_slot, current_slot, slot, seen_blocks, block_proof,
                   pass_vars, history_vars, engine_vars>>

\* File::create fails and expect() panics.
CreateFilePanics ==
    /\ pc = "create_file"
    /\ pc' = "panicked"
    /\ panic' = "create_file"
    /\ UNCHANGED <<last_slot, current_slot, slot, seen_blocks, block_proof,
                   files, pass_vars, history_vars, setups>>

\* file.write_all(json_data) succeeds: the file holds the whole document.
WriteAll ==
    /\ pc = "write_all"
    /\ files' = [files EXCEPT ![slot] = FileHolding("all", block_proof.val)]
    /\ write_count' = [write_count EXCEPT ![slot] = @ + 1]
    /\ pc' = "insert"
    /\ UNCHANGED <<last_slot, current_slot, slot, seen_blocks, block_proof,
                   pass_vars, first_reported, outcome, failed_earlier,
                   fetch_count, chain, engine_vars>>

\* file.write_all fails after writing nothing or a part, and expect()
\* panics.
WriteAllPanics(written) ==
    /\ pc = "write_all"
    /\ files' = [files EXCEPT ![slot] = FileHolding(written, block_proof.val)]
    /\ pc' = "panicked"
    /\ panic' = "write_all"
    /\ UNCHANGED <<last_slot, current_slot, slot, seen_blocks, block_proof,
                   pass_vars, history_vars, setups>>

\* Faulty variant of InsertSeen: the slot is not inserted.
InsertSeen_Forgotten ==
    /\ pc = "insert"
    /\ block_proof' = None
    /\ slot' = slot + 1
    /\ pc' = "for"
    /\ UNCHANGED <<last_slot, current_slot, seen_blocks, files, pass_vars,
                   history_vars, engine_vars>>

\* seen_blocks.insert(slot) (line 170), and on to the next slot.
InsertSeen ==
    /\ pc = "insert"
    /\ seen_blocks' = seen_blocks \cup {slot}
    /\ block_proof' = None
    /\ slot' = slot + 1
    /\ pc' = "for"
    /\ UNCHANGED <<last_slot, current_slot, files, pass_vars, history_vars,
                   engine_vars>>

\* Faulty variant of EndPass: last_slot keeps the value a resync gave it.
EndPass_UnlessResynced ==
    /\ pc = "end_pass"
    /\ last_slot' = IF resynced THEN last_slot ELSE current_slot
    /\ pc' = "sleep"
    /\ UNCHANGED <<current_slot, slot, seen_blocks, block_proof, files,
                   pass_vars, history_vars, engine_vars>>

\* last_slot = current_slot (line 193), after the loop ended or broke.
EndPass ==
    /\ pc = "end_pass"
    /\ last_slot' = current_slot
    /\ pc' = "sleep"
    /\ UNCHANGED <<current_slot, slot, seen_blocks, block_proof, files,
                   pass_vars, history_vars, engine_vars>>

\* sleep(Duration::from_secs(1)).await (line 195), then the next pass.
Sleep ==
    /\ pc = "sleep"
    /\ pc' = "get_slot"
    /\ UNCHANGED <<last_slot, current_slot, slot, seen_blocks, block_proof,
                   files, pass_vars, history_vars, engine_vars>>

Next ==
    \/ \E t \in Slots : GetSlot(t)
    \/ GetSlotPanics
    \/ ForNext
    \/ \E block \in Blocks : GetBlockOk(block)
    \/ \E block \in Blocks :
          \E k \in 1..ProofCalls(slot, block) : ProofPanics(block, k)
    \/ \E error_message \in ErrorMessages : GetBlockErr(error_message)
    \/ CreateFile
    \/ CreateFilePanics
    \/ WriteAll
    \/ \E written \in {"nothing", "part"} : WriteAllPanics(written)
    \/ InsertSeen
    \/ EndPass
    \/ Sleep

Spec == Init /\ [][Next]_vars

(***************************************************************************)
(* Properties.                                                             *)
(***************************************************************************)
\* A pass has ended when main stands at the sleep of line 195.
PassEnded == pc = "sleep"

\* The file of slot s holds the whole serialized bundle.
Persisted(s) == files[s].some /\ files[s].val.written = "all"

\* Slot s is accounted for: processed, or answered by a skipped/cleaned up
\* error, or below a first available block the node reported.
Accounted(s) ==
    \/ s \in seen_blocks /\ Persisted(s)
    \/ outcome[s] = "classified"
    \/ s < first_reported

\* C1: at the end of every pass, every slot s with 0 < s <= last_slot is in
\* seen_blocks with a persisted bundle, or was answered by a skipped/cleaned
\* up error, or lies below a node-reported first available block.
C1_NoSilentGaps ==
    PassEnded => \A s \in 1..last_slot : Accounted(s)

\* C2: at the end of a pass that resynced on a parsable first available
\* block F, last_slot equals F (so that the next enumeration starts at
\* F + 1).
C2_ResyncKeepsFirstAvailable ==
    (PassEnded /\ resynced) => last_slot = resync_first

\* C3: a slot whose fetch failed with an unclassified error in an earlier
\* pass has been fetched again by the end of a later pass that enumerated.
C3_UnclassifiedRetried ==
    (PassEnded /\ enumerating) =>
        \A s \in failed_earlier : fetch_count[s] >= 2

\* C4: at the end of a pass all of whose get_block calls succeeded, every
\* slot of (last_slot before the pass, current_slot] is in seen_blocks and
\* has its bundle persisted, written exactly once.
C4_FullRangeProcessed ==
    (PassEnded /\ enumerating /\ pass_all_ok) =>
        \A s \in (pass_start + 1)..current_slot :
            /\ s \in seen_blocks
            /\ Persisted(s)
            /\ write_count[s] = 1

\* C4's case: a second or later pass over two slots or more, with every
\* fetch successful, has ended.
C4_Witness ==
    /\ PassEnded /\ enumerating /\ pass_all_ok
    /\ pass_start >= 1
    /\ current_slot >= pass_start + 2

\* C5: in every step, a slot already in seen_blocks is not passed to
\* get_block, and no slot's bundle has been written more than once.
C5_NoBlockProcessedTwice ==
    [][\A s \in Slots :
          /\ s \in seen_blocks => fetch_count'[s] = fetch_count[s]
          /\ write_count'[s] <= 1]_vars

\* C5's case: with a slot seen and persisted by an earlier pass, a later
\* pass has fetched.
C5_Witness ==
    \E s \in seen_blocks :
        /\ s <= pass_start
        /\ write_count[s] = 1
        /\ Len(fetched) >= 1

\* The signature strings of a block, transaction after transaction.
RECURSIVE AllSignatures(_)
AllSignatures(transactions) ==
    IF transactions = <<>> THEN <<>>
    ELSE Head(transactions).signatures \o AllSignatures(Tail(transactions))

\* The number of signature strings of a block.
RECURSIVE SignatureCount(_)
SignatureCount(transactions) ==
    IF transactions = <<>> THEN 0
    ELSE Len(Head(transactions).signatures)
            + SignatureCount(Tail(transactions))

\* C6: the persisted bundle of a fetched block has one transactions entry
\* per signature string of the block, in block order and then declaration
\* order, under the slot and block hash of the block.
C6_OneEntryPerSignature ==
    \A s \in Slots :
        Persisted(s) =>
            LET doc == files[s].val.json_data
                block == chain[s].val
            IN  /\ doc.slot = s
                /\ doc.block_hash = block.blockhash
                /\ Len(doc.transactions) = SignatureCount(block.transactions)
                /\ [i \in 1..Len(doc.transactions) |->
                        doc.transactions[i].transaction_hash]
                     = AllSignatures(block.transactions)

\* C6's case: the block with signatures [sigA], [sigB1, sigB2] is
\* persisted, with three entries.
C6_Witness ==
    \E s \in Slots :
        /\ Persisted(s)
        /\ chain[s].val.transactions
              = << JsonTransaction(<<"sigA">>),
                   JsonTransaction(<<"sigB1", "sigB2">>) >>
        /\ Len(files[s].val.json_data.transactions) = 3

\* C7: the slots passed to get_block within a pass are strictly ascending
\* and lie in (last_slot at the start of the pass, current_slot].
C7_AscendingWithinPass ==
    /\ \A i \in 1..Len(fetched) :
          fetched[i] \in (pass_start + 1)..current_slot
    /\ \A i, j \in 1..Len(fetched) : i < j => fetched[i] < fetched[j]

\* C7's case: a second or later pass has fetched two slots or more, one of which
\* failed.
C7_Witness ==
    /\ Len(fetched) >= 2
    /\ pass_start >= 1
    /\ ~pass_all_ok

\* C8: the step that assigns last_slot from a node-reported first available
\* block does not decrease last_slot.
C8_ResyncNeverBackward ==
    [][(~resynced /\ resynced') => last_slot' >= last_slot]_vars

\* C9: no slot below a first available block reported by an earlier resync
\* is passed to get_block.
C9_NoFetchBelowFirstAvailable ==
    [][\A s \in Slots :
          fetch_count'[s] > fetch_count[s] => s >= first_reported]_vars

\* C10: once a pass has resynced at slot s on first available block F, the
\* pass fetches no slot after s, and neither s nor any slot between s and F
\* is in seen_blocks.
C10_ResyncAbortsEnumeration ==
    resynced =>
        /\ fetched # <<>>
        /\ fetched[Len(fetched)] = resync_slot
        /\ \A i \in 1..Len(fetched) : fetched[i] <= resync_slot
        /\ resync_slot \notin seen_blocks
        /\ \A s \in Slots :
              (resync_slot < s /\ s < resync_first) => s \notin seen_blocks

\* C10's case: a pass that had already processed a slot resynced below its
\* tip on a first available block further ahead, and has ended.
C10_Witness ==
    /\ PassEnded /\ resynced
    /\ Len(fetched) >= 2
    /\ resync_slot < current_slot
    /\ resync_first > resync_slot + 1

\* C11: when the proof system fails while a block is processed, no file is
\* written for the slot, the slot is not in seen_blocks, and main keeps
\* running (it goes on to the following slots).
C11_ProofFailureIsolated ==
    panic = "generate_block_proof" =>
        /\ ~files[slot].some
        /\ slot \notin seen_blocks
        /\ pc # "panicked"

\* Whether the text holds, anywhere, the label followed by a number that
\* parse::<Slot> accepts and by the first comma after the label.
HasParsableFirst(m) ==
    \E i \in 0..Len(m) :
        /\ MatchesAt(m, FirstAvailableLabel, i)
        /\ \E j \in (i + Len(FirstAvailableLabel))..(Len(m) - 1) :
              /\ m[j + 1] = ","
              /\ \A k \in (i + Len(FirstAvailableLabel))..(j - 1) :
                    m[k + 1] # ","
              /\ parse(Slice(m, i + Len(FirstAvailableLabel), j)).some

\* C12: a skipped/cleaned up error without a parsable "First available
\* block: <n>," does not make main panic, leaves last_slot as it is, does
\* not resync, and the loop goes on to the next slot of the pass.
C12_UnparsableErrorContinues ==
    [][\A m \in ErrorMessages :
          (IsClassified(m) /\ ~HasParsableFirst(m) /\ GetBlockErr(m)) =>
              /\ pc' = "for"
              /\ slot' = slot + 1
              /\ last_slot' = last_slot
              /\ ~resynced'
              /\ panic' = "none"]_vars

\* C12's case: a classified error of the pass did not resync, and the pass
\* went on to fetch a later slot.
C12_Witness ==
    \E i \in 1..Len(fetched) :
        /\ outcome[fetched[i]] = "classified"
        /\ ~resynced
        /\ i < Len(fetched)
        /\ pc # "panicked"

\* C13: parameters are generated at most once per circuit shape (number
\* of transaction inputs) during a run.
C13_SetupOncePerShape ==
    \A i, j \in 1..Len(setups) : i # j => setups[i] # setups[j]

\* The field element the encoder is specified to return: the digest when
\* it is a canonical scalar, the additive identity otherwise.
ExpectedEncoding(data) ==
    IF Sha256Digest(data) < FieldModulus THEN Sha256Digest(data) ELSE FrZero

\* The bundle has one entry per signature of sigs, in order, each proved
\* with the signature's specified encoding as its witness.
EntriesFor(bundle, sigs) ==
    /\ Len(bundle.transactions) = Len(sigs)
    /\ \A i \in 1..Len(sigs) :
          /\ bundle.transactions[i].transaction_hash = sigs[i]
          /\ bundle.transactions[i].proof.proof.variables
                = <<Some(ExpectedEncoding(sigs[i]))>>

\* Slot s is the one whose bundle is being saved.
BeingSaved(s) == slot = s /\ pc \in {"create_file", "write_all", "insert"}

\* C14: encoding always yields a field element (zero for a digest that is
\* not canonical), and every fetched block goes through whole: while it is
\* being saved and once persisted, its bundle has an entry for every
\* signature, those encoded to zero included, and unless main panicked on
\* that slot the block is persisted.
C14_EncodingNeverHalts ==
    \A s \in Slots :
        chain[s].some =>
            LET block == chain[s].val
                sigs == AllSignatures(block.transactions)
            IN  /\ str_to_fr(block.blockhash)
                      = Some(ExpectedEncoding(block.blockhash))
                /\ \A i \in 1..Len(sigs) :
                      str_to_fr(sigs[i]) = Some(ExpectedEncoding(sigs[i]))
                /\ BeingSaved(s) =>
                      block_proof.some /\ EntriesFor(block_proof.val, sigs)
                /\ (~BeingSaved(s) /\ ~(pc = "panicked" /\ slot = s)) =>
                      Persisted(s) /\ EntriesFor(files[s].val.json_data, sigs)

\* C14's case: a block whose hash and whose signature sigZ both encode to
\* zero is persisted, with the entry of sigZ and the entry of the signature
\* after it.
C14_Witness ==
    \E s \in Slots :
        /\ Persisted(s)
        /\ ExpectedEncoding(chain[s].val.blockhash) = FrZero
        /\ \E i \in 1..(Len(files[s].val.json_data.transactions) - 1) :
              /\ files[s].val.json_data.transactions[i].transaction_hash = "sigZ"
              /\ files[s].val.json_data.transactions[i].proof.proof.variables
                    = <<Some(FrZero)>>
              /\ files[s].val.json_data.transactions[i + 1].transaction_hash
                    = "sigA"

\* C15: in every state, also after a failure in the middle of the save,
\* the file of a slot is absent or holds the whole serialized bundle.
C15_AtomicPersist ==
    \A s \in Slots : files[s].some => files[s].val.written = "all"

\* The constraint system enforces the hash relation itself: besides the
\* block hash it allocates one variable per transaction commitment, and the
\* right-hand side of its last (top-level) constraint is a circuit variable,
\* the hash output, not a constant.
HashInsideCircuit(cs) ==
    /\ Len(cs.variables) = 1 + cs.inputs
    /\ \E i \in 1..Len(cs.constraints[Len(cs.constraints)].c) :
          cs.constraints[Len(cs.constraints)].c[i].var # "one"

\* C16: every persisted proof is over a constraint system that allocates
\* the transaction commitments and ties the in-circuit hash output to the
\* block commitment.
C16_HashEnforcedInCircuit ==
    \A s \in Slots :
        Persisted(s) =>
            \A i \in 1..Len(files[s].val.json_data.transactions) :
                HashInsideCircuit(
                    files[s].val.json_data.transactions[i].proof.proof)

\* C17: every proof of a persisted bundle is built, for set-up and for
\* proving alike, over a circuit with as many transaction inputs as the
\* block has signature entries.
C17_ProofsUseFullShape ==
    \A s \in Slots :
        Persisted(s) =>
            \A i \in 1..Len(files[s].val.json_data.transactions) :
                LET proof == files[s].val.json_data.transactions[i].proof
                    n == SignatureCount(chain[s].val.transactions)
                IN  /\ proof.params.inputs = n
                    /\ proof.proof.inputs = n

\* C18: main sleeps only in a pass whose polled tip brought no new slot
\* (current_slot <= last_slot at the poll); after a pass that enumerated it
\* polls again without sleeping.
C18_SleepsOnlyWhenIdle ==
    [][(pc = "sleep" /\ pc' = "get_slot") => current_slot <= pass_start]_vars

\* The slots that have a file block_proof_<slot>.json.
SlotsWithFile == {s \in Slots : files[s].some}

\* main stands between two iterations of its loops.
AtSlotBoundary == pc \in {"get_slot", "for", "end_pass", "sleep"}

\* C19: every slot of seen_blocks has its file, and between two loop
\* iterations the slots with a file are exactly those of seen_blocks.
C19_StoreMatchesSeen ==
    /\ seen_blocks \subseteq SlotsWithFile
    /\ AtSlotBoundary => seen_blocks = SlotsWithFile

\* C19's case: two slots have been saved and inserted, and main is back at
\* the head of the for loop.
C19_Witness ==
    /\ pc = "for"
    /\ Cardinality(seen_blocks) >= 2
    /\ Cardinality(SlotsWithFile) >= 2

\* C20: a pass that enumerated ends with last_slot equal to its
\* current_slot, whatever happened in the loop; and every get_block call of
\* the run is for a slot never fetched before and greater than every slot
\* fetched before.
C20_TipAlwaysAdopted ==
    [][/\ (PassEnded' /\ enumerating') => last_slot' = current_slot'
       /\ \A s \in Slots :
             fetch_count'[s] > fetch_count[s] =>
                 /\ fetch_count[s] = 0
                 /\ \A u \in Slots : fetch_count[u] > 0 => u < s]_vars

\* C20's case: a second or later pass resynced on a first available block
\* other than its tip, and has ended.
C20_Witness ==
    /\ PassEnded /\ enumerating /\ resynced
    /\ resync_first # current_slot
    /\ pass_start >= 1
    /\ \E s \in Slots : s <= pass_start /\ fetch_count[s] = 1

=============================================================================
